---- MODULE Spec2Model ----
(***************************************************************************)
(* Model of downloadGateIO.py: discovery of trading pairs, the two-level   *)
(* thread-pool fan-out of main / download_candlestick_data_all_timeframes, *)
(* and the month-by-month walk of download_candlestick_data with its       *)
(* gzip validation, delete / re-download and download_file.                *)
(*                                                                         *)
(* A date is kept as its month key: the number of months since January of  *)
(* year MINYEAR (datetime.date cannot go below it).  The day of the month  *)
(* never reaches a URL or a path (only strftime("%Y%m") does), so it is    *)
(* not part of the state.                                                  *)
(***************************************************************************)
EXTENDS Integers, Sequences, FiniteSets, TLC

VARIABLES
    start,        \* month key of date.today() - timedelta(days=50)
    boundary,     \* remote: every month key <= boundary answers 404
    listing,      \* remote: the ids the currency_pairs endpoint lists
    remote,       \* remote: url -> status it serves (fixed once observed)
    num_threads,  \* configured pool size (both pools)
    timeframes,   \* configured timeframe list
    runs,         \* how many times the user starts the script
    disk0,        \* the local files before the first run
    fs,           \* local files: save_path -> content kind
    dirs,         \* local directories created by os.makedirs
    run,          \* how many times the script has been started
    mpc,          \* position of main()
    tickers,      \* result of get_usdt_btc_trading_pairs()
    nsub,         \* number of futures submitted to the outer pool
    widx,         \* index of the future main is waiting for
    progress,     \* progress_bar count
    interrupted,  \* KeyboardInterrupt was caught in main
    dstatus,      \* status of the listing response (-1 not asked, 0 no response)
    mexc,         \* exception that left main ("" if none)
    task,         \* per ticker index: state of its outer-pool future
    result,       \* per ticker index: what its future holds for main
    pc,           \* per walk: position in download_candlestick_data
    key,          \* per walk: month key of `today` in the walk
    exc,          \* per walk: exception that left the walk ("" if none)
    redl,         \* per walk: the pending download is a re-download
    requested,    \* per walk: month keys an archive GET was issued for
    downloaded,   \* per walk: month keys whose download completed
    removed,      \* history: <<run, save_path>> of every os.remove
    repaired,     \* history: <<run, save_path>> deleted and re-downloaded in full
    prevAll404    \* history: every walk of the previous run ended on a 404

vars == <<start, boundary, listing, remote, num_threads, timeframes, runs,
          disk0, fs,
          dirs,
          run, mpc, tickers, nsub, widx, progress, interrupted, dstatus, mexc,
          task, result, pc, key,
          exc, redl, requested, downloaded, removed, repaired, prevAll404>>

envVars  == <<start, boundary, listing, num_threads, timeframes, runs, disk0>>
mainVars == <<mpc, tickers, nsub, widx, progress, interrupted, dstatus, mexc>>
\* what no step of a walk changes
walkFrame == <<envVars, mainVars, run, task, result, prevAll404>>

----------------------------------------------------------------------------
(* Bounds of the model *)

MaxStart   == 2     \* largest start month key explored
MaxTickers == 2     \* longest listing returned by discovery
MaxThreads == 2     \* largest configured num_threads explored
MaxRuns    == 2     \* the script is started at most this many times
MaxTimeframes == 2  \* longest configured timeframe list explored
MaxInitFiles == 2   \* most files on disk before the first run of one walk
MaxWork    == 4     \* largest scenario: walks x months x runs x pool size
MaxWalkWork == 4    \* most month visits (months x runs) of a single walk
MaxFairFiles == 1   \* most files on disk before the first run, fair walk
MaxYearBack == 2    \* months below the start a walk over a year's end may reach
MaxYearFiles == 1   \* most files on disk before such a walk

(* Program constants *)

MINYEAR == 1        \* datetime.MINYEAR: date arithmetic below it raises

base_url == "https://download.gatedata.org"
save_dir == "data/gateio"
biz      == "spot"

baseAssets == { <<"B","T","C">>, <<"E","T","H">>, <<"U","S","D","T">> }

(* Ticker ids are character sequences, so that str.endswith is computed. *)
T_BTC == <<"X","_","B","T","C">>      \* eligible: ends with BTC
T_USDT == <<"Y","_","U","S","D","T">> \* eligible: ends with USDT
T_XYZ == <<"F","_","X","Y","Z">>      \* not eligible
TickerPool == {T_BTC, T_USDT, T_XYZ}

AllTimeframes == <<"1m", "5m", "1h", "4h", "1d">>

----------------------------------------------------------------------------
(* Pure helpers *)

\* mutant of endswith: only the lengths are compared
endswithLengthOnly(s, suf) == Len(suf) <= Len(s)

\* str.endswith
endswith(s, suf) ==
    /\ Len(suf) <= Len(s)
    /\ SubSeq(s, Len(s) - Len(suf) + 1, Len(s)) = suf

\* any(ticker.endswith(asset) for asset in baseAssets)
Eligible(ticker) == \E asset \in baseAssets : endswith(ticker, asset)

\* mutant of year_month: the months are counted on within the first year
year_monthNoCarry(k) == MINYEAR * 100 + (k + 1)

\* today.strftime("%Y%m"): the digits of the year followed by a 2-digit month
year_month(k) == (MINYEAR + (k \div 12)) * 100 + ((k % 12) + 1)

\* f"{base_url}/{biz}/candlesticks_{timeframe}/{year_month}/{ticker}-{year_month}.csv.gz"
url(ticker, timeframe, ym) == <<base_url, biz, timeframe, ym, ticker, ym>>

\* os.path.join(save_dir, ticker, timeframe)
ticker_dir(ticker, timeframe) == <<save_dir, ticker, timeframe>>

\* mutant of save_path: the timeframe folder is left out of the path
save_pathNoTimeframe(ticker, timeframe, ym) == <<save_dir, ticker, ticker, ym>>

\* os.path.join(ticker_dir, f"{ticker}-{year_month}.csv.gz")
save_path(ticker, timeframe, ym) == <<save_dir, ticker, timeframe, ticker, ym>>

(* Content kinds of a local file and what gzip.open(...).read(1) does:      *)
(*   "gz"    complete gzip stream            -> returns a byte              *)
(*   "short" zero bytes, or a gzip stream cut -> returns b"" or a byte,     *)
(*           after its first bytes of data       without error              *)
(*   "bad"   wrong magic / cut in the header -> BadGzipFile(OSError) or     *)
(*                                              EOFError                    *)
(*   "zbad"  gzip header, broken deflate data-> zlib.error (not an OSError) *)
Kinds == {"gz", "short", "bad", "zbad"}

\* mutant of gzip_read: every file is reported as not a gzip file
gzip_readAlwaysFails(kind) == "OSError"

gzip_read(kind) ==
    CASE kind \in {"gz", "short"}        -> "ok"
      [] kind = "bad"                       -> "OSError"
      [] kind = "zbad"                      -> "zlib.error"

\* mutant of worker_free: the pool starts a thread for every queued item
worker_freeAlways(busy, max_workers) == TRUE

\* ThreadPoolExecutor(max_workers): a queued item is taken when fewer than
\* max_workers worker threads are busy
worker_free(busy, max_workers) == busy < max_workers

\* function update / removal on the partial maps fs and remote
\* mutant of Del: the entry is left in place
DelNothing(f, p) == f

Put(f, p, v) == [q \in (DOMAIN f) \cup {p} |-> IF q = p THEN v ELSE f[q]]
Del(f, p)    == [q \in (DOMAIN f) \ {p} |-> f[q]]
EmptyMap     == [q \in {} |-> "none"]

----------------------------------------------------------------------------
(* Walk and task identities *)

TaskIds == 1..MaxTickers
Walks   == TaskIds \X (1..MaxTimeframes)

TickerOf(w) == tickers[w[1]]
TfOf(w)     == timeframes[w[2]]
UrlOf(w)    == url(TickerOf(w), TfOf(w), year_month(key[w]))
PathOf(w)   == save_path(TickerOf(w), TfOf(w), year_month(key[w]))

Live(w)       == w[1] <= Len(tickers) /\ w[2] <= Len(timeframes)
Terminated(w) == pc[w] \in {"done", "raised"}
Active(w)     == pc[w] \in {"loop", "validate", "remove", "await", "writing"}
WalksOf(i)    == {w \in Walks : w[1] = i /\ w[2] <= Len(timeframes)}

----------------------------------------------------------------------------
(* download_candlestick_data(ticker, timeframe) *)

\* mutant of PrevKey: the month is not moved back
PrevKeyStuck(k) == k

\* today - relativedelta(months=1) on month keys
PrevKey(k) == k - 1

\* mutant of OnHTTPError: a 404 does not break the loop
OnHTTPErrorNoBreak(status) == "continue"

\* the two `except requests.exceptions.HTTPError` handlers:
\* 404 breaks the loop, any other status falls out of the handler
OnHTTPError(status) == IF status = 404 THEN "break" ELSE "continue"

\* mutant of raise_for_status: no status raises
raise_for_statusNever(status) == "ok"

\* response.raise_for_status(): 4xx / 5xx raise HTTPError
raise_for_status(status) == IF status >= 400 THEN "HTTPError" ELSE "ok"

\* an exception leaves download_candlestick_data
Raise(w, e) ==
    /\ pc'  = [pc  EXCEPT ![w] = "raised"]
    /\ exc' = [exc EXCEPT ![w] = e]
    /\ key' = key

\* lines 127-129: move to the previous month; a date below MINYEAR raises
NextMonth(w) ==
    IF key[w] = 0
    THEN Raise(w, "ValueError")
    ELSE /\ key' = [key EXCEPT ![w] = PrevKey(@)]
         /\ pc'  = [pc  EXCEPT ![w] = "loop"]
         /\ exc' = exc

\* requests.get(url, stream=True) is issued (download_file line 67).
\* A walk visits each month once, so the log holds at most MaxStart + 1
\* requests (RequestLogFits); the guard keeps the log finite.
SendRequest(w, again) ==
    /\ Len(requested[w]) <= MaxStart
    /\ requested' = [requested EXCEPT ![w] = Append(@, key[w])]
    /\ redl' = [redl EXCEPT ![w] = again]
    /\ pc' = [pc EXCEPT ![w] = "await"]
    /\ UNCHANGED <<key, exc>>

\* a worker of the inner pool picks the walk up: lines 76-83
WalkStart(w) ==
    /\ pc[w] = "queued"
    /\ \A v \in WalksOf(w[1]) : v[2] < w[2] => pc[v] # "queued"
    /\ worker_free(Cardinality({v \in WalksOf(w[1]) : Active(v)}),
                   num_threads)
    /\ key' = [key EXCEPT ![w] = start]
    /\ pc'  = [pc  EXCEPT ![w] = "loop"]
    /\ dirs' = dirs \cup {ticker_dir(TickerOf(w), TfOf(w))}
    /\ UNCHANGED <<walkFrame, remote, fs, exc, redl, requested, downloaded,
                   removed, repaired>>

\* lines 88-91 and 112-115: eligibility test, os.path.exists, first download
LoopTop(w) ==
    /\ pc[w] = "loop"
    /\ IF ~Eligible(TickerOf(w))
       THEN NextMonth(w) /\ UNCHANGED <<requested, redl>>
       ELSE IF PathOf(w) \in DOMAIN fs
            THEN /\ pc' = [pc EXCEPT ![w] = "validate"]
                 /\ UNCHANGED <<key, exc, requested, redl>>
            ELSE SendRequest(w, FALSE)
    /\ UNCHANGED <<walkFrame, remote, fs, dirs, downloaded, removed, repaired>>

\* lines 93-102: gzip.open / read(1) on the existing file
Validate(w) ==
    /\ pc[w] = "validate"
    /\ LET r == IF PathOf(w) \in DOMAIN fs
                THEN gzip_read(fs[PathOf(w)])
                ELSE "OSError"          \* FileNotFoundError is an OSError
       IN  CASE r = "ok"         -> NextMonth(w)
             [] r = "OSError"    -> /\ pc' = [pc EXCEPT ![w] = "remove"]
                                    /\ UNCHANGED <<key, exc>>
             [] r = "zlib.error" -> Raise(w, "zlib.error")
    /\ UNCHANGED <<walkFrame, remote, fs, dirs, redl, requested, downloaded,
                   removed, repaired>>

\* lines 103-106: os.remove, then the re-download request
Remove(w) ==
    /\ pc[w] = "remove"
    /\ IF PathOf(w) \in DOMAIN fs
       THEN /\ fs' = Del(fs, PathOf(w))
            /\ removed' = removed \cup {<<run, PathOf(w)>>}
            /\ SendRequest(w, TRUE)
       ELSE /\ Raise(w, "FileNotFoundError")
            /\ UNCHANGED <<fs, removed, requested, redl>>
    /\ UNCHANGED <<walkFrame, remote, dirs, downloaded, repaired>>

\* statuses the archive endpoint may serve for the month of walk w: success,
\* not found, or another error status (requests follows redirects, so a
\* download ends with a 2xx, 4xx or 5xx answer)
Statuses(w) ==
    IF UrlOf(w) \in DOMAIN remote THEN {remote[UrlOf(w)]}
    ELSE IF key[w] <= boundary THEN {404}
    ELSE {200, 404, 500}

\* download_file lines 67-69 and the handlers of lines 108-111 / 117-120
Respond(w) ==
    /\ pc[w] = "await"
    /\ \E status \in Statuses(w) :
        /\ remote' = Put(remote, UrlOf(w), status)
        /\ IF raise_for_status(status) = "ok"
           THEN /\ fs' = Put(fs, PathOf(w), "short")   \* open(save_path, "wb")
                /\ pc' = [pc EXCEPT ![w] = "writing"]
                /\ UNCHANGED <<key, exc>>
           ELSE /\ fs' = fs
                /\ IF OnHTTPError(status) = "break"
                   THEN /\ pc' = [pc EXCEPT ![w] = "done"]
                        /\ UNCHANGED <<key, exc>>
                   ELSE NextMonth(w)
    /\ UNCHANGED <<walkFrame, dirs, redl, requested, downloaded, removed,
                   repaired>>

\* requests.get fails without a response (ConnectionError, Timeout):
\* not an HTTPError, so it leaves the walk
TransportFail(w) ==
    /\ pc[w] = "await"
    /\ Raise(w, "ConnectionError")
    /\ UNCHANGED <<walkFrame, remote, fs, dirs, redl, requested, downloaded,
                   removed, repaired>>

\* download_file lines 70-71: every chunk written, file closed
WriteDone(w) ==
    /\ pc[w] = "writing"
    /\ fs' = Put(fs, PathOf(w), "gz")
    /\ downloaded' = [downloaded EXCEPT ![w] = @ \cup {key[w]}]
    /\ repaired' = IF redl[w] THEN repaired \cup {<<run, PathOf(w)>>}
                            ELSE repaired
    /\ NextMonth(w)
    /\ UNCHANGED <<walkFrame, remote, dirs, redl, requested, removed>>

\* the stream breaks while iterating chunks (ChunkedEncodingError /
\* ConnectionError): what was written so far stays on disk
WriteFail(w) ==
    /\ pc[w] = "writing"
    /\ \E kind \in {"short", "bad"} : fs' = Put(fs, PathOf(w), kind)
    /\ Raise(w, "ChunkedEncodingError")
    /\ UNCHANGED <<walkFrame, remote, dirs, redl, requested, downloaded,
                   removed, repaired>>

WalkStep(w) ==
    \/ WalkStart(w)
    \/ LoopTop(w)
    \/ Validate(w)
    \/ Remove(w)
    \/ Respond(w)
    \/ TransportFail(w)
    \/ WriteDone(w)
    \/ WriteFail(w)

----------------------------------------------------------------------------
(* main() and download_candlestick_data_all_timeframes(ticker) *)

walkVars == <<pc, key, exc, redl, requested, downloaded>>
diskVars == <<remote, fs, dirs, removed, repaired>>

\* get_usdt_btc_trading_pairs(): the ids of the listing, in order, as is
get_usdt_btc_trading_pairs(l) == [n \in 1..Len(l) |-> l[n]]

(* What the currency_pairs endpoint may answer.  requests.get either fails  *)
(* without a response (status 0) or returns a response whose status is not  *)
(* looked at (there is no raise_for_status in lines 40-43).  Bodies:        *)
(*   "pairs"   a JSON array of objects with an "id"                         *)
(*   "object"  a JSON object, as the API's error documents are              *)
(*   "text"    not JSON                                                     *)
ListingStatuses == {200, 500}
ListingBodies   == {"pairs", "object", "text"}

\* lines 40-43 on a response with the given body: response.json() and the
\* comprehension pair["id"] over what it returned
parse_pairs(body) ==
    CASE body = "pairs"  -> "ok"
      [] body = "object" -> "TypeError"        \* pair is a key, a str
      [] body = "text"   -> "JSONDecodeError"

\* an exception leaves main before any pool exists
MainRaise(e) ==
    /\ mexc' = e
    /\ mpc' = "failed"
    /\ tickers' = tickers

\* lines 140-146: makedirs, discovery, progress bar
Discover ==
    /\ mpc = "start"
    /\ dirs' = dirs \cup {<<save_dir>>}
    /\ \/ /\ dstatus' = 0
          /\ MainRaise("ConnectionError")
       \/ \E status \in ListingStatuses, body \in ListingBodies :
            /\ dstatus' = status
            /\ IF parse_pairs(body) = "ok"
               THEN /\ tickers' = get_usdt_btc_trading_pairs(listing)
                    /\ mpc' = "submit"
                    /\ mexc' = mexc
               ELSE MainRaise(parse_pairs(body))
    /\ UNCHANGED <<envVars, remote, fs, removed, repaired, prevAll404, run,
                   nsub, widx, progress, interrupted, task, result, walkVars>>

\* line 149: executor.submit for the next ticker of the comprehension
Submit ==
    /\ mpc = "submit"
    /\ nsub < Len(tickers)
    /\ nsub' = nsub + 1
    /\ task' = [task EXCEPT ![nsub + 1] = "queued"]
    /\ UNCHANGED <<envVars, diskVars, prevAll404, run, mpc, tickers, widx,
                   progress, interrupted, dstatus, mexc, result, walkVars>>

\* line 150: the comprehension is exhausted, main starts waiting
SubmitEnd ==
    /\ mpc = "submit"
    /\ nsub = Len(tickers)
    /\ mpc' = "wait"
    /\ widx' = 1
    /\ UNCHANGED <<envVars, diskVars, prevAll404, run, tickers, nsub,
                   progress, interrupted, dstatus, mexc, task, result,
                   walkVars>>

\* a worker of the outer pool takes the oldest queued future and runs
\* download_candlestick_data_all_timeframes: executor.map submits one walk
\* per timeframe to a fresh inner pool (lines 134-135)
TaskStart(i) ==
    /\ task[i] = "queued"
    /\ \A j \in TaskIds : j < i => task[j] # "queued"
    /\ worker_free(Cardinality({j \in TaskIds : task[j] = "running"}),
                   num_threads)
    /\ task' = [task EXCEPT ![i] = "running"]
    /\ pc' = [w \in Walks |-> IF w \in WalksOf(i) THEN "queued" ELSE pc[w]]
    /\ UNCHANGED <<envVars, mainVars, diskVars, prevAll404, run, result, key,
                   exc, redl, requested, downloaded>>

\* mutant of joined: a worker whose call raised is never joined
joinedOnlyReturned(p) == p = "done"

\* the worker thread of a walk is free again: the call returned or raised
\* (the exception is stored in the walk's future)
joined(p) == p \in {"done", "raised"}

\* the inner `with` block ends: shutdown(wait=True) returns once every walk
\* has returned or raised; the lazy map results are never read, so the
\* function returns None whatever the walks' futures hold
TaskFinish(i) ==
    /\ task[i] = "running"
    /\ \A w \in WalksOf(i) : joined(pc[w])
    /\ task' = [task EXCEPT ![i] = "finished"]
    /\ result' = [result EXCEPT ![i] = "None"]
    /\ UNCHANGED <<envVars, mainVars, diskVars, prevAll404, run, walkVars>>

\* mutant of future_done: result() does not wait for the future
future_doneAlways(state) == TRUE

\* future.result() blocks until the future is finished
future_done(state) == state = "finished"

\* lines 150-156: future.result() returns, progress_bar.update(1)
MainWait ==
    /\ mpc = "wait"
    /\ widx <= Len(tickers)
    /\ future_done(task[widx])
    /\ progress' = progress + 1
    /\ widx' = widx + 1
    /\ UNCHANGED <<envVars, diskVars, prevAll404, run, mpc, tickers, nsub,
                   interrupted, dstatus, mexc, task, result, walkVars>>

\* mutant of all_joined: leaving the pool does not wait for its workers
all_joinedNoWait(n) == TRUE

\* ThreadPoolExecutor.shutdown(wait=True) (also run by the `with` exit):
\* returns when the workers have drained the queue and joined
all_joined(n) == \A i \in 1..n : task[i] = "finished"

\* the for loop ends, the outer `with` exits, progress_bar.close()
MainExit ==
    /\ mpc = "wait"
    /\ widx > Len(tickers)
    /\ all_joined(nsub)
    /\ mpc' = "exit"
    /\ UNCHANGED <<envVars, diskVars, prevAll404, run, tickers, nsub, widx,
                   progress, interrupted, dstatus, mexc, task, result,
                   walkVars>>

\* lines 157-159: KeyboardInterrupt caught while waiting for a future;
\* executor.shutdown(wait=True) is called (cancel_futures is not set)
Interrupt ==
    /\ mpc = "wait"
    /\ widx <= Len(tickers)
    /\ interrupted' = TRUE
    /\ mpc' = "shutdown"
    /\ UNCHANGED <<envVars, diskVars, prevAll404, run, tickers, nsub, widx,
                   progress, dstatus, mexc, task, result, walkVars>>

\* KeyboardInterrupt while line 149 is still submitting: it is outside the
\* try of line 152, so it leaves the `with` block, whose exit runs
\* shutdown(wait=True), and then leaves main
InterruptSubmit ==
    /\ mpc = "submit"
    /\ nsub < Len(tickers)
    /\ mexc' = "KeyboardInterrupt"
    /\ mpc' = "shutdown"
    /\ UNCHANGED <<envVars, diskVars, prevAll404, run, tickers, nsub, widx,
                   progress, interrupted, dstatus, task, result, walkVars>>

\* shutdown(wait=True) has returned; then break, the `with` exit and
\* progress_bar.close(), or the pending exception leaves main
ShutdownDone ==
    /\ mpc = "shutdown"
    /\ all_joined(nsub)
    /\ mpc' = IF mexc = "" THEN "exit" ELSE "failed"
    /\ UNCHANGED <<envVars, diskVars, prevAll404, run, tickers, nsub, widx,
                   progress, interrupted, dstatus, mexc, task, result,
                   walkVars>>

\* the script is started again on the same disk, the same day
Rerun ==
    /\ mpc \in {"exit", "failed"}
    /\ run < runs
    /\ run' = run + 1
    /\ prevAll404' = /\ mpc = "exit"
                     /\ \A w \in Walks : Live(w) => pc[w] = "done"
    /\ mpc' = "start"
    /\ tickers' = <<>>
    /\ nsub' = 0
    /\ widx' = 0
    /\ progress' = 0
    /\ interrupted' = FALSE
    /\ dstatus' = -1
    /\ mexc' = ""
    /\ task' = [i \in TaskIds |-> "none"]
    /\ result' = [i \in TaskIds |-> "pending"]
    /\ pc' = [w \in Walks |-> "none"]
    /\ key' = [w \in Walks |-> 0]
    /\ exc' = [w \in Walks |-> ""]
    /\ redl' = [w \in Walks |-> FALSE]
    /\ requested' = [w \in Walks |-> <<>>]
    /\ downloaded' = [w \in Walks |-> {}]
    /\ UNCHANGED <<envVars, diskVars>>

----------------------------------------------------------------------------
(* Initial states *)

\* sequences over S of length lo..hi
SeqsOf(S, lo, hi) == UNION {[1..n -> S] : n \in lo..hi}

\* local disks holding at most n files of the walk (ticker, timeframe)
DisksOf(ticker, timeframe, top, n) ==
    LET paths == {save_path(ticker, timeframe, year_month(k)) : k \in 0..top}
    IN  UNION {[D -> Kinds] : D \in {E \in SUBSET paths : Cardinality(E) <= n}}

InitRest ==
    /\ remote = EmptyMap
    /\ dirs = {}
    /\ run = 1
    /\ mpc = "start"
    /\ tickers = <<>>
    /\ nsub = 0
    /\ widx = 0
    /\ progress = 0
    /\ interrupted = FALSE
    /\ dstatus = -1
    /\ mexc = ""
    /\ task = [i \in TaskIds |-> "none"]
    /\ result = [i \in TaskIds |-> "pending"]
    /\ pc = [w \in Walks |-> "none"]
    /\ key = [w \in Walks |-> 0]
    /\ exc = [w \in Walks |-> ""]
    /\ redl = [w \in Walks |-> FALSE]
    /\ requested = [w \in Walks |-> <<>>]
    /\ downloaded = [w \in Walks |-> {}]
    /\ removed = {}
    /\ repaired = {}
    /\ prevAll404 = FALSE

\* the larger of two numbers
Max(a, b) == IF a >= b THEN a ELSE b

\* the whole script on an empty disk: any listing, number of timeframes,
\* start month, number of runs and pool size within the scenario budget; a
\* pool larger than the work it is given behaves like one of that size
Init ==
    /\ start \in 0..MaxStart
    /\ boundary \in -1..start
    /\ listing \in SeqsOf(TickerPool, 1, MaxTickers)
    /\ timeframes \in {SubSeq(AllTimeframes, 1, n) : n \in 1..MaxTimeframes}
    /\ num_threads \in 1..MaxThreads
    /\ num_threads <= Max(Len(listing), Len(timeframes))
    /\ runs \in 1..MaxRuns
    /\ Len(listing) * Len(timeframes) * (start + 1) * runs * num_threads
           <= MaxWork
    /\ disk0 = EmptyMap
    /\ fs = disk0
    /\ InitRest

\* one walk: one listed ticker, one timeframe, files already on disk
InitWalk ==
    /\ start \in 0..MaxStart
    /\ boundary \in -1..start
    /\ listing \in {<<T_BTC>>, <<T_XYZ>>}
    /\ num_threads = 1
    /\ timeframes = SubSeq(AllTimeframes, 1, 1)
    /\ runs \in 1..MaxRuns
    /\ (start + 1) * runs <= MaxWalkWork
    /\ disk0 \in DisksOf(listing[1], timeframes[1], start, MaxInitFiles)
    /\ fs = disk0
    /\ InitRest

\* month key of January of the year after MINYEAR
JanKey == 12

\* one walk that starts in January or February and reaches back into the
\* year before: 404 from at most MaxYearBack months below the start, files
\* on disk only for the start month and the month before it
InitYear ==
    /\ start \in JanKey..(JanKey + 1)
    /\ boundary \in (start - MaxYearBack)..start
    /\ listing \in {<<T_BTC>>, <<T_XYZ>>}
    /\ num_threads = 1
    /\ timeframes = SubSeq(AllTimeframes, 1, 1)
    /\ runs \in 1..MaxRuns
    /\ (start - boundary + 1) * runs <= MaxWalkWork
    /\ disk0 \in UNION {[D -> Kinds] :
            D \in {E \in SUBSET {save_path(listing[1], timeframes[1],
                                           year_month(k)) :
                                     k \in (start - 1)..start} :
                      Cardinality(E) <= MaxYearFiles}}
    /\ fs = disk0
    /\ InitRest

\* one walk as in InitWalk, with fewer files on disk at the start
InitFair ==
    /\ InitWalk
    /\ Cardinality(DOMAIN disk0) <= MaxFairFiles

Next ==
    \/ Discover
    \/ Submit
    \/ SubmitEnd
    \/ \E i \in TaskIds : TaskStart(i)
    \/ \E i \in TaskIds : TaskFinish(i)
    \/ \E w \in Walks : WalkStart(w)
    \/ \E w \in Walks : LoopTop(w)
    \/ \E w \in Walks : Validate(w)
    \/ \E w \in Walks : Remove(w)
    \/ \E w \in Walks : Respond(w)
    \/ \E w \in Walks : TransportFail(w)
    \/ \E w \in Walks : WriteDone(w)
    \/ \E w \in Walks : WriteFail(w)
    \/ MainWait
    \/ MainExit
    \/ Interrupt
    \/ InterruptSubmit
    \/ ShutdownDone
    \/ Rerun

Spec     == Init /\ [][Next]_vars
SpecWalk == InitWalk /\ [][Next]_vars
SpecYear == InitYear /\ [][Next]_vars

\* the steps of the program itself (the interrupts and Rerun are the user's)
Progress ==
    \/ Discover \/ Submit \/ SubmitEnd
    \/ \E i \in TaskIds : TaskStart(i) \/ TaskFinish(i)
    \/ \E w \in Walks : WalkStep(w)
    \/ MainWait \/ MainExit \/ ShutdownDone

\* the threads keep running and every request is answered or fails: while
\* the program can take a step it eventually takes one
FairWalk == InitFair /\ [][Next]_vars /\ WF_vars(Progress)

\* the whole script under the same fairness
FairSpec == Init /\ [][Next]_vars /\ WF_vars(Progress)

----------------------------------------------------------------------------
(* Properties *)

\* the local file of walk w for month key k
FileOf(w, k) == save_path(TickerOf(w), TfOf(w), year_month(k))
HasFile(w, k) == FileOf(w, k) \in DOMAIN fs

\* no other walk of the run works on the directory of w
Alone(w) ==
    \A v \in Walks :
        (Live(v) /\ v # w) =>
            ticker_dir(TickerOf(v), TfOf(v)) # ticker_dir(TickerOf(w), TfOf(w))

\* the guard of SendRequest never holds a walk back
RequestLogFits ==
    \A w \in Walks :
        pc[w] \in {"loop", "remove"} => Len(requested[w]) <= start - key[w]

\* C1: in a walk started on an empty directory the month files present are
\* at every point a contiguous descending run from the start month: no month
\* is missing while an older month of the same walk has its file, whatever
\* status (200, 404 or another HTTP error) each month is answered with.
C1_ContiguousRun ==
    \A w \in Walks :
        (run = 1 /\ Live(w) /\ Alone(w)) =>
            \A k \in 0..start :
                HasFile(w, k) => \A j \in k..start : HasFile(w, j)

\* C3: the walk of a symbol that ends with no configured quote asset is a
\* no-op: no archive request, no file, and it returns instead of leaving
\* the loop by an exception.
C3_IneligibleWalkReturns ==
    \A w \in Walks :
        (Live(w) /\ ~Eligible(TickerOf(w))) =>
            /\ requested[w] = <<>>
            /\ \A k \in 0..start : ~HasFile(w, k)
            /\ pc[w] # "raised"

\* the id is some text followed by one of the configured quote assets
HasQuoteSuffix(id) ==
    \E asset \in baseAssets :
        \E n \in 0..Len(id) : SubSeq(id, n + 1, Len(id)) = asset

\* C5: for every discovered symbol that ends with no configured quote asset,
\* in every reachable state no archive file exists under its directories and
\* no download request has been issued for it.
C5_NoDownloadForIneligible ==
    /\ \A w \in Walks :
        (Live(w) /\ ~HasQuoteSuffix(TickerOf(w))) =>
            /\ requested[w] = <<>>
            /\ pc[w] \notin {"validate", "remove", "await", "writing"}
            /\ downloaded[w] = {}
    /\ \A p \in DOMAIN fs : HasQuoteSuffix(p[2])
    /\ \A u \in DOMAIN remote : HasQuoteSuffix(u[5])

\* C5 witness: the walk of an ineligible symbol has run through its months
\* while the walk of an eligible symbol of the same listing has downloaded
C5_Witness ==
    \E w, v \in Walks :
        /\ Live(w) /\ ~HasQuoteSuffix(TickerOf(w)) /\ Terminated(w)
        /\ Live(v) /\ HasQuoteSuffix(TickerOf(v)) /\ downloaded[v] # {}

\* C7: when a download is answered with an HTTP error status other than
\* 404, the error leaves the walk: the walk ends raised and requests no
\* older month, for a first download and for a re-download alike.
C7_ErrorPropagates ==
    [][\A w \in Walks :
        ( /\ pc[w] = "await"
          /\ pc'[w] # "await"
          /\ UrlOf(w) \in DOMAIN remote'
          /\ remote'[UrlOf(w)] \notin {200, 404} )
        => pc'[w] = "raised"]_vars

\* two walks work on the same local path at the same time, one of them
\* writing it while the other writes or is about to delete it
Conflict(w, v) ==
    /\ w # v
    /\ pc[w] = "writing"
    /\ pc[v] \in {"writing", "remove"}
    /\ PathOf(w) = PathOf(v)

NoDuplicates(seq) == \A m, n \in 1..Len(seq) : seq[m] = seq[n] => m = n

\* C2 as stated: for any sequence of discovered ids, duplicates included,
\* no two workers ever write (or delete and write) the same local path at
\* the same time.
C2_SingleWriterAnyListing ==
    \A w, v \in Walks : ~Conflict(w, v)

\* C2 amended: when the discovered ids are pairwise distinct, no two
\* workers ever write (or delete and write) the same local path at the same
\* time, and no month file is downloaded by two walks.
C2_SingleWriterDistinctIds ==
    NoDuplicates(tickers) =>
        \A w, v \in Walks :
            /\ ~Conflict(w, v)
            /\ (Live(w) /\ Live(v) /\ w # v) =>
                   {FileOf(w, k) : k \in downloaded[w]}
                       \cap {FileOf(v, k) : k \in downloaded[v]} = {}

\* C2 witness: two walks of distinct ids are writing at the same time
C2_Witness ==
    /\ NoDuplicates(tickers)
    /\ \E w, v \in Walks :
        /\ w # v
        /\ w[1] # v[1]
        /\ pc[w] = "writing"
        /\ pc[v] = "writing"

\* C8: once main has handled a user interrupt, no symbol task that had not
\* started yet starts executing.
C8_NoStartAfterInterrupt ==
    [][interrupted =>
        \A i \in TaskIds : task[i] = "queued" => task'[i] = "queued"]_vars

\* the walk has been picked up by a worker
Started(w) == pc[w] \notin {"none", "queued"}

\* C4: for an eligible symbol, when the remote archive set is finite (every
\* month at or below a boundary answers 404) and finitely many local files
\* exist, a started walk eventually terminates, whatever the months above
\* the boundary are answered with.
C4_WalkTerminates ==
    (\E w \in Walks :
        Live(w) /\ Eligible(TickerOf(w)) /\ boundary >= 0 /\ Started(w))
    ~> (\A w \in Walks :
        (Live(w) /\ Eligible(TickerOf(w)) /\ Started(w)) => Terminated(w))

\* C4 witness: an eligible walk went past local files and months above the
\* boundary and ended on the 404 of a boundary month
C4_Witness ==
    \E w \in Walks :
        /\ Live(w) /\ Eligible(TickerOf(w))
        /\ boundary >= 0
        /\ \E k \in 0..start : HasFile(w, k) /\ FileOf(w, k) \in DOMAIN disk0
        /\ pc[w] = "done"
        /\ key[w] <= boundary
        /\ key[w] < start

\* the archive endpoint behaves as the mock of C6 as far as it was observed:
\* 404 at or below the boundary, 200 above it
MockRemote(w) ==
    /\ boundary >= 0
    /\ \A k \in 0..start :
        url(TickerOf(w), TfOf(w), year_month(k)) \in DOMAIN remote =>
            remote[url(TickerOf(w), TfOf(w), year_month(k))]
                = IF k <= boundary THEN 404 ELSE 200

\* the descending month keys from the start month down to lo
Descending(hi, lo) == [n \in 1..(hi - lo + 1) |-> hi - n + 1]

\* C6: against an endpoint that answers 404 at or before boundary month B
\* and succeeds after B, an eligible walk started on an empty directory
\* requests the months from the start month downwards in order and never a
\* month older than B; when it stops it has stopped on the first 404 and the
\* files written are exactly the months strictly after B.
C6_StopsAtBoundary ==
    \A w \in Walks :
        ( /\ run = 1 /\ Live(w) /\ Alone(w) /\ Started(w)
          /\ Eligible(TickerOf(w))
          /\ disk0 = EmptyMap
          /\ MockRemote(w)
          /\ exc[w] = "" )
        =>
          /\ \A n \in 1..Len(requested[w]) :
                /\ requested[w][n] = start - n + 1
                /\ requested[w][n] >= boundary
          /\ pc[w] = "done" =>
                /\ requested[w] = Descending(start, IF boundary < start THEN boundary ELSE start)
                /\ key[w] = (IF boundary < start THEN boundary ELSE start)
                /\ \A k \in 0..start :
                      HasFile(w, k) <=> (k > boundary)
                /\ \A k \in 0..start :
                      HasFile(w, k) => fs[FileOf(w, k)] = "gz"
                /\ downloaded[w] = (boundary + 1)..start

\* C6 witness: the walk downloaded at least one month and stopped on the 404
\* of the boundary month
C6_Witness ==
    \E w \in Walks :
        /\ run = 1 /\ Live(w) /\ Alone(w) /\ Eligible(TickerOf(w))
        /\ disk0 = EmptyMap
        /\ MockRemote(w)
        /\ pc[w] = "done"
        /\ boundary < start
        /\ downloaded[w] = (boundary + 1)..start
        /\ requested[w][Len(requested[w])] = boundary

\* C9: idempotence.  When the previous run completed with every walk ended
\* by a 404 and the remote is unchanged, the next run takes no action for a
\* month whose local file exists and validates, completes no download,
\* deletes nothing and leaves the local files and their contents unchanged.
C9_SecondRunIdle ==
    [][ /\ (run >= 2 /\ prevAll404) =>
              /\ fs' = fs
              /\ removed' = removed
              /\ \A w \in Walks : downloaded'[w] = {}
        /\ \A w \in Walks :
              ( /\ pc[w] = "validate"
                /\ PathOf(w) \in DOMAIN fs
                /\ fs[PathOf(w)] = "gz"
                /\ pc'[w] # "validate" )
              => /\ pc'[w] \in {"loop", "raised"}
                 /\ requested'[w] = requested[w]
                 /\ fs' = fs ]_vars

\* C9 witness: in a second run after an all-404 first run, the walk has
\* passed a file that the first run downloaded and has ended on the 404
C9_Witness ==
    /\ run = 2
    /\ prevAll404
    /\ \E w \in Walks :
        /\ Live(w)
        /\ pc[w] = "done"
        /\ \E k \in 0..start :
            /\ k > key[w]
            /\ HasFile(w, k)
            /\ FileOf(w, k) \notin DOMAIN disk0

\* the remote serves month k of walk w and no transfer of the walk broke
Serves(w, k) ==
    /\ k > boundary
    /\ url(TickerOf(w), TfOf(w), year_month(k)) \in DOMAIN remote =>
           remote[url(TickerOf(w), TfOf(w), year_month(k))] = 200
    /\ exc[w] \notin {"ConnectionError", "ChunkedEncodingError"}

\* the walk has finished with month k
Handled(w, k) ==
    /\ Started(w)
    /\ \/ key[w] < k
       \/ Terminated(w) /\ key[w] = k

\* C10: corruption recovery.  A local month file that exists but is not a
\* valid compressed stream, while the remote still serves the month, is
\* deleted and replaced by the valid remote content with exactly one
\* re-download request, the walk continues to the next older month, and a
\* subsequent walk finds the file valid and neither deletes nor re-downloads
\* it.
C10_CorruptFileReplaced ==
    \A w \in Walks :
        (Live(w) /\ Eligible(TickerOf(w))) =>
            \A k \in 0..start :
                /\ ( /\ run = 1
                     /\ FileOf(w, k) \in DOMAIN disk0
                     /\ disk0[FileOf(w, k)] # "gz"
                     /\ Serves(w, k)
                     /\ Handled(w, k) )
                   => /\ HasFile(w, k)
                      /\ fs[FileOf(w, k)] = "gz"
                      /\ <<1, FileOf(w, k)>> \in removed
                      /\ <<1, FileOf(w, k)>> \in repaired
                      /\ Cardinality({n \in 1..Len(requested[w]) :
                                          requested[w][n] = k}) = 1
                      /\ (Terminated(w) /\ key[w] = k) =>
                             (k = 0 /\ exc[w] = "ValueError")
                /\ ( /\ run = 2
                     /\ <<1, FileOf(w, k)>> \in repaired )
                   => /\ HasFile(w, k)
                      /\ fs[FileOf(w, k)] = "gz"
                      /\ <<2, FileOf(w, k)>> \notin removed
                      /\ \A n \in 1..Len(requested[w]) : requested[w][n] # k

\* how many requests walk w has issued for month key k
Requests(w, k) == Cardinality({n \in 1..Len(requested[w]) : requested[w][n] = k})

\* C11: when a local month file fails validation and the single re-download
\* of that month is answered 404, the walk ends at once: the answer takes it
\* from the pending re-download straight to its end and leaves the disk as
\* it is, the corrupt file stays deleted, the month was requested once, no
\* older month was or is requested, and the walk stays ended.
C11_RedownloadNotFoundEnds ==
    /\ [](\A w \in Walks :
            (Live(w) /\ pc[w] = "done" /\ redl[w]) =>
                /\ ~HasFile(w, key[w])
                /\ <<run, FileOf(w, key[w])>> \in removed
                /\ <<run, FileOf(w, key[w])>> \notin repaired
                /\ Requests(w, key[w]) = 1
                /\ \A n \in 1..Len(requested[w]) : requested[w][n] >= key[w])
    /\ [][\A w \in Walks :
            /\ ( /\ pc[w] = "await" /\ redl[w]
                 /\ pc'[w] # "await"
                 /\ UrlOf(w) \in DOMAIN remote'
                 /\ remote'[UrlOf(w)] = 404 )
               => /\ pc'[w] = "done"
                  /\ key'[w] = key[w]
                  /\ requested'[w] = requested[w]
                  /\ fs' = fs
            /\ (pc[w] = "done" /\ redl[w] /\ run' = run)
               => /\ pc'[w] = "done"
                  /\ requested'[w] = requested[w]
                  /\ fs' = fs ]_vars

\* C11 witness: a file that was on disk and failed validation was deleted,
\* its re-download was answered 404 and the walk ended there with older
\* months left unvisited
C11_Witness ==
    \E w \in Walks :
        /\ Live(w)
        /\ pc[w] = "done"
        /\ redl[w]
        /\ key[w] > 0
        /\ FileOf(w, key[w]) \in DOMAIN disk0
        /\ gzip_read(disk0[FileOf(w, key[w])]) = "OSError"
        /\ <<run, FileOf(w, key[w])>> \in removed
        /\ ~HasFile(w, key[w])

\* requests.get or the chunk iteration failed below HTTP
TransportErrors == {"ConnectionError", "ChunkedEncodingError"}

\* C12: a transport error that ends one walk does not abort its siblings.
\* The step in which the walk fails changes no other walk, no symbol task
\* and not main; and from then on every symbol main has submitted is run,
\* every walk of every such symbol is started and reaches its own end, and
\* main, unless the user interrupts it, processes every symbol.
C12_SiblingsUnaffected ==
    /\ [][\A w \in Walks :
            (pc[w] # "raised" /\ pc'[w] = "raised"
                 /\ exc'[w] \in TransportErrors)
            => /\ \A v \in Walks \ {w} :
                     /\ pc'[v] = pc[v]
                     /\ key'[v] = key[v]
                     /\ exc'[v] = exc[v]
               /\ task' = task
               /\ UNCHANGED mainVars ]_vars
    /\ (\E w \in Walks : Live(w) /\ exc[w] \in TransportErrors)
       ~> ( /\ mpc \in {"exit", "failed"}
            /\ \A i \in 1..nsub :
                  /\ task[i] = "finished"
                  /\ \A w \in WalksOf(i) : Terminated(w)
            /\ (mexc = "" /\ ~interrupted) =>
                  (nsub = Len(tickers) /\ progress = Len(tickers)) )

\* C12 witness: one walk ended by a transport error, and both another
\* timeframe of the same symbol and a walk of another symbol reached the
\* 404 that ends them; main processed every symbol
C12_Witness ==
    \E w, v, u \in Walks :
        /\ Live(w) /\ Live(v) /\ Live(u)
        /\ v # w /\ v[1] = w[1]
        /\ u[1] # w[1]
        /\ exc[w] \in TransportErrors
        /\ pc[v] = "done"
        /\ pc[u] = "done"
        /\ mpc = "exit"
        /\ progress = Len(tickers)

\* the lines walk w has printed in this run (lines 102, 107 and 116): the
\* only print calls of download_candlestick_data
Printed(w) ==
    {<<"not a valid gzip file. Deleting", FileOf(w, k)>> :
        k \in {j \in 0..start : <<run, FileOf(w, j)>> \in removed}}
    \cup {<<"Redownloaded", FileOf(w, k)>> :
        k \in {j \in downloaded[w] : <<run, FileOf(w, j)>> \in repaired}}
    \cup {<<"Downloaded", FileOf(w, k)>> :
        k \in {j \in downloaded[w] : <<run, FileOf(w, j)>> \notin repaired}}

\* what a walk prints when nothing fails
NormalLines == {"not a valid gzip file. Deleting", "Redownloaded", "Downloaded"}

\* C13: when a walk ends with a transport error, the orchestration observes
\* it: once the symbol's task has finished, either what its future gives
\* main is not the plain None of a symbol whose walks ended on 404, or a
\* line other than the ones of a normal walk has been printed for the walk.
C13_ErrorObserved ==
    \A w \in Walks :
        ( /\ Live(w)
          /\ exc[w] \in TransportErrors
          /\ task[w[1]] = "finished" )
        => \/ result[w[1]] # "None"
           \/ \E m \in Printed(w) : m[1] \notin NormalLines

\* a walk of this run has been handed to the inner pool or gone further
AnyWalkBegun == \E w \in Walks : pc[w] # "none"

\* C14: when the listing request fails at the network level or is answered
\* with a non-2xx status, get_usdt_btc_trading_pairs fails with an error and
\* main terminates: no symbol is submitted, no walk is started and no
\* archive request is issued in that run.
C14_DiscoveryFailureFatal ==
    (dstatus # -1 /\ dstatus \notin 200..299) =>
        /\ mpc = "failed"
        /\ mexc # ""
        /\ tickers = <<>>
        /\ nsub = 0
        /\ ~AnyWalkBegun
        /\ \A w \in Walks : requested[w] = <<>>

\* the walks with an archive request in flight: requests.get issued, the
\* response not yet fully read
InFlight == {w \in Walks : pc[w] \in {"await", "writing"}}

\* C15: in every reachable state the number of archive requests in flight is
\* at most outer pool size times inner pool size, num_threads * num_threads;
\* at most num_threads symbol tasks run at once and each has at most
\* num_threads walks at work.
C15_InFlightBounded ==
    /\ Cardinality(InFlight) <= num_threads * num_threads
    /\ Cardinality({i \in TaskIds : task[i] = "running"}) <= num_threads
    /\ \A i \in TaskIds :
          Cardinality({w \in WalksOf(i) : Active(w)}) <= num_threads

\* C15 witness: the ceiling is reached while another walk is held back in
\* a pool's queue
C15_Witness ==
    /\ Cardinality(InFlight) = num_threads * num_threads
    /\ \/ \E i \in TaskIds : task[i] = "queued"
       \/ \E w \in Walks : pc[w] = "queued"

\* the user's interrupt reaches main in this step
InterruptStep ==
    \/ ~interrupted /\ interrupted'
    \/ mexc # "KeyboardInterrupt" /\ mexc' = "KeyboardInterrupt"

\* C16: on user interrupt and on normal finish alike main does not exit
\* while a started symbol task or one of its walks is still running: when
\* main has ended no task runs and no walk is queued or at work; and the
\* interrupt itself aborts nothing: the step in which it reaches main changes
\* no walk, no task, no file and no pending request.
C16_ExitAfterWorkers ==
    /\ [](mpc \in {"exit", "failed"} =>
            /\ \A i \in TaskIds : task[i] \notin {"queued", "running"}
            /\ \A w \in Walks : pc[w] # "queued" /\ ~Active(w))
    /\ [][InterruptStep => UNCHANGED <<walkVars, diskVars, task>>]_vars

\* C16 witness: main has ended after an interrupt that came before it had
\* counted every symbol, and a walk completed a download in that run
C16_Witness ==
    /\ mpc = "exit"
    /\ interrupted
    /\ progress < Len(tickers)
    /\ \E w \in Walks : Live(w) /\ downloaded[w] # {} /\ Terminated(w)

\* the calendar month before the month written yyyymm
CalendarPrev(ym) == IF ym % 100 = 1 THEN (ym \div 100 - 1) * 100 + 12 ELSE ym - 1

\* C17: within one walk the months are visited one after the other and
\* strictly descending.  The walk starts at the start month; a request is
\* issued only for the month the walk is at; the walk leaves a month only
\* from a step that ends the handling of that month, and then for exactly
\* the calendar month before it (December of the year before after a
\* January); no month is requested twice and none is passed over.
C17_MonthsDescend ==
    /\ [](\A w \in Walks :
            Started(w) =>
                /\ key[w] <= start
                /\ year_month(key[w]) % 100 \in 1..12
                /\ \A m, n \in 1..Len(requested[w]) :
                      m < n => requested[w][m] > requested[w][n])
    /\ [][\A w \in Walks :
            /\ (pc[w] = "queued" /\ pc'[w] # "queued")
               => (pc'[w] = "loop" /\ key'[w] = start)
            /\ (Started(w) /\ run' = run /\ key'[w] # key[w])
               => /\ year_month(key'[w]) = CalendarPrev(year_month(key[w]))
                  /\ key'[w] = key[w] - 1
                  /\ pc[w] \in {"loop", "validate", "await", "writing"}
                  /\ pc'[w] = "loop"
            /\ (run' = run /\ requested'[w] # requested[w])
               => /\ requested'[w] = Append(requested[w], key[w])
                  /\ key'[w] = key[w]
                  /\ pc[w] \in {"loop", "remove"} ]_vars

\* C17 witness: a walk started in January or February has gone past
\* January into December of the year before, requesting every month on the
\* way in order
C17_Witness ==
    \E w \in Walks :
        /\ Live(w) /\ Eligible(TickerOf(w))
        /\ start >= JanKey
        /\ key[w] = JanKey - 1
        /\ year_month(key[w]) % 100 = 12
        /\ year_month(key[w]) \div 100 = MINYEAR
        /\ pc[w] = "done"
        /\ requested[w] = Descending(start, JanKey - 1)

\* C18: the progress count is advanced by one for a symbol only after all
\* timeframe walks of that symbol have finished; it never exceeds the number
\* of symbols discovery returned, and on a normal, uninterrupted finish it
\* equals that number.
C18_ProgressCountsFinished ==
    /\ [](/\ progress <= Len(tickers)
          /\ \A i \in 1..progress :
                /\ task[i] = "finished"
                /\ \A w \in WalksOf(i) : Terminated(w)
          /\ (mpc = "exit" /\ ~interrupted) =>
                (progress = Len(tickers) /\ Len(tickers) = Len(listing)))
    /\ [][(run' = run /\ progress' # progress) =>
            /\ progress' = progress + 1
            /\ \A w \in WalksOf(progress') : Terminated(w) ]_vars

\* C18 witness: main finished without interrupt having counted two symbols
\* of two timeframes each
C18_Witness ==
    /\ mpc = "exit"
    /\ ~interrupted
    /\ Len(tickers) = 2
    /\ Len(timeframes) = 2
    /\ progress = 2
    /\ \A w \in Walks : Terminated(w)

====
